---- MODULE Spec2Model ----
(***************************************************************************)
(* Model of morfi/parsing.py: the record mapper (HeadersData, parse_game), *)
(* the batch loader (parse_pgn) and the command-line path (_main).         *)
(*                                                                         *)
(* Python values are tagged records: None is [t |-> "none"], a str is      *)
(* [t |-> "str", s |-> <<chars>>] and an int is [t |-> "int", n |-> k].    *)
(* A header mapping is a function from a subset of the header keys to      *)
(* character sequences (chess.pgn header values are always text).          *)
(***************************************************************************)
EXTENDS Integers, Sequences, FiniteSets, TLC

VARIABLES
    mode,             \* "lib": parse_pgn called directly; "cli": through _main
    pathOk,           \* whether open(filepath) succeeds
    source,           \* the games the file holds, each one its header mapping
    max_games,        \* parse_pgn argument
    report_each,      \* parse_pgn argument
    pc,               \* position of the program
    handle,           \* "unopened" | "open" | "closed"
    opens,            \* how many times the handle was acquired
    i,                \* loop variable of `for i in range(max_games)`
    calls,            \* calls of chess.pgn.read_game made so far
    yielded,          \* games read_game has returned so far
    games,            \* list of HeadersData
    damaged_headers,  \* list of raw headers
    exceptions,       \* list of failure causes
    observations,     \* the i of every "Loading the {i}st game..." line printed
    raised,           \* the exception propagating out of parse_pgn, or "none"
    result,           \* what parse_pgn returned, if it returned
    outfile,          \* the CSV file written by _main, if any
    raw,              \* record mapper on its own: the header mapping given
    mapped            \* record mapper on its own: the outcome of parse_game

vars == <<mode, pathOk, source, max_games, report_each, pc, handle, opens, i,
          calls, yielded, games, damaged_headers, exceptions, observations,
          raised, result, outfile, raw, mapped>>

inputVars == <<mode, pathOk, source, max_games, report_each>>
mapperVars == <<raw, mapped>>

-----------------------------------------------------------------------------
(* Bounds of the model. One step of Spec is one whole iteration of the loop  *)
(* of parse_pgn, so its states are the iteration boundaries, the return and  *)
(* the failure.                                                              *)

MaxSourceLen == 3
MaxReportEach == 3
MaxLen == 2

(* Caps run past the longest source, so that "cap above the source length"    *)
(* (which is how the default of 10^18 behaves) is among the cases.            *)
MaxCap == MaxSourceLen + 1

-----------------------------------------------------------------------------
(* Python values *)

PyNone == [t |-> "none"]
PyStr(s) == [t |-> "str", s |-> s]
PyInt(n) == [t |-> "int", n |-> n]

DigitChars == <<"0", "1", "2", "3", "4", "5", "6", "7", "8", "9">>
Digits == {DigitChars[k] : k \in 1..Len(DigitChars)}
Signs == {"+", "-"}

DigitVal(c) == (CHOOSE k \in 1..Len(DigitChars) : DigitChars[k] = c) - 1

AllDigits(s) == \A k \in 1..Len(s) : s[k] \in Digits

(* int(s) of Python succeeds on an optional sign followed by one or more      *)
(* digits (whitespace and underscores are not in the alphabet modelled).      *)
IsNumeric(s) ==
    IF Len(s) > 0 /\ s[1] \in Signs
    THEN Len(s) > 1 /\ AllDigits(Tail(s))
    ELSE Len(s) > 0 /\ AllDigits(s)

RECURSIVE NatOf(_)
NatOf(s) ==
    IF s = <<>> THEN 0
    ELSE 10 * NatOf(SubSeq(s, 1, Len(s) - 1)) + DigitVal(s[Len(s)])

IntOf(s) ==
    IF s[1] = "-" THEN 0 - NatOf(Tail(s))
    ELSE IF s[1] = "+" THEN NatOf(Tail(s))
    ELSE NatOf(s)

-----------------------------------------------------------------------------
(* HeadersData: the fourteen fields in declaration order *)

FieldNames ==
    <<"event_name", "result", "termination", "time_control", "date", "time",
      "white_name", "white_title", "white_elo", "white_elo_diff",
      "black_name", "black_title", "black_elo", "black_elo_diff">>

FieldSet == {FieldNames[k] : k \in 1..Len(FieldNames)}

(* The declared type of each field: Optional[...] fields accept None. *)
FieldType ==
    [f \in FieldSet |->
        IF f \in {"white_elo", "black_elo"}
            THEN [type |-> "int", optional |-> FALSE]
        ELSE IF f \in {"white_elo_diff", "black_elo_diff"}
            THEN [type |-> "int", optional |-> TRUE]
        ELSE IF f \in {"white_title", "black_title"}
            THEN [type |-> "str", optional |-> TRUE]
        ELSE [type |-> "str", optional |-> FALSE]]

(* The header key parse_game reads for each field. *)
HeaderKey ==
    [f \in FieldSet |->
        CASE f = "event_name" -> "Event"
          [] f = "result" -> "Result"
          [] f = "termination" -> "Termination"
          [] f = "date" -> "UTCDate"
          [] f = "time" -> "UTCTime"
          [] f = "time_control" -> "TimeControl"
          [] f = "white_name" -> "White"
          [] f = "white_title" -> "WhiteTitle"
          [] f = "white_elo" -> "WhiteElo"
          [] f = "white_elo_diff" -> "WhiteRatingDiff"
          [] f = "black_name" -> "Black"
          [] f = "black_title" -> "BlackTitle"
          [] f = "black_elo" -> "BlackElo"
          [] f = "black_elo_diff" -> "BlackRatingDiff"]

HeaderKeys == {HeaderKey[f] : f \in FieldSet}

(* headers.get(key): the value, or None when the key is absent *)
Get(headers, key) ==
    IF key \in DOMAIN headers THEN PyStr(headers[key]) ELSE PyNone

(* Accepts with Optional[...] taken as required *)
AcceptsRequiresAll(ft, v) ==
    IF v = PyNone THEN FALSE
    ELSE IF ft.type = "int" THEN v.t = "str" /\ IsNumeric(v.s)
    ELSE v.t = "str"

(* Validation of one value against a declared field type: TRUE when the      *)
(* value is accepted.                                                         *)
Accepts(ft, v) ==
    IF v = PyNone THEN ft.optional
    ELSE IF ft.type = "int" THEN v.t = "str" /\ IsNumeric(v.s)
    ELSE v.t = "str"

(* The validated value: text coerced to int for the int fields. *)
Coerce(ft, v) ==
    IF v = PyNone THEN PyNone
    ELSE IF ft.type = "int" THEN PyInt(IntOf(v.s))
    ELSE v

(* parse_game: HeadersData(...) either builds the whole record or raises a   *)
(* ValidationError naming every field that failed.                           *)
parse_game(headers) ==
    LET given == [f \in FieldSet |-> Get(headers, HeaderKey[f])]
        bad == {f \in FieldSet : ~Accepts(FieldType[f], given[f])}
    IN  IF bad = {}
        THEN [ok |-> TRUE,
              rec |-> [f \in FieldSet |-> Coerce(FieldType[f], given[f])]]
        ELSE [ok |-> FALSE, cause |-> bad]

-----------------------------------------------------------------------------
(* Inputs *)

Chars == {"7", "-", "+", "x"}

(* Every text over Chars of length at most n *)
RECURSIVE Texts(_)
Texts(n) ==
    IF n = 0 THEN {<<>>}
    ELSE Texts(n - 1) \cup
         {Append(s, c) : s \in {u \in Texts(n - 1) : Len(u) = n - 1}, c \in Chars}

(* A well-formed header mapping carrying all fourteen keys *)
FullHeaders ==
    [k \in HeaderKeys |->
        CASE k \in {"WhiteElo", "BlackElo"} -> <<"7", "7">>
          [] k = "WhiteRatingDiff" -> <<"+", "7">>
          [] k = "BlackRatingDiff" -> <<"-", "7">>
          [] OTHER -> <<"x">>]

Without(headers, keys) == [k \in (DOMAIN headers) \ keys |-> headers[k]]
With(headers, key, text) ==
    [k \in (DOMAIN headers) \cup {key} |-> IF k = key THEN text ELSE headers[k]]

OptionalKeys == {HeaderKey[f] : f \in {g \in FieldSet : FieldType[g].optional}}

(* The games a modelled file is made of: two that map and two that do not *)
SampleHeaders ==
    {FullHeaders,
     Without(FullHeaders, OptionalKeys),
     Without(FullHeaders, {"Termination"}),
     With(FullHeaders, "WhiteElo", <<"x">>)}

RECURSIVE SeqsUpTo(_, _)
SeqsUpTo(S, n) ==
    IF n = 0 THEN {<<>>}
    ELSE SeqsUpTo(S, n - 1) \cup
         {Append(q, x) : q \in {u \in SeqsUpTo(S, n - 1) : Len(u) = n - 1}, x \in S}

DefaultReportEach == 10000

NotReturned == [returned |-> FALSE]
NoFile == [exists |-> FALSE]
NotMapped == [called |-> FALSE]

-----------------------------------------------------------------------------
(* parse_pgn and _main *)

Init ==
    /\ mode \in {"lib", "cli"}
    /\ pathOk \in BOOLEAN
    /\ source \in SeqsUpTo(SampleHeaders, MaxSourceLen)
    /\ max_games \in 0..MaxCap
    \* _main passes no report_each: the command line always runs the default
    /\ report_each \in IF mode = "cli" THEN {DefaultReportEach}
                                       ELSE 1..MaxReportEach
    /\ pc = "start"
    /\ handle = "unopened"
    /\ opens = 0
    /\ i = 0
    /\ calls = 0
    /\ yielded = 0
    /\ games = <<>>
    /\ damaged_headers = <<>>
    /\ exceptions = <<>>
    /\ observations = <<>>
    /\ raised = "none"
    /\ result = NotReturned
    /\ outfile = NoFile
    /\ raw = <<>>
    /\ mapped = NotMapped

(* `with open(filepath) as handle:` when the file opens *)
Open ==
    /\ pc = "start"
    /\ pathOk
    /\ handle' = "open"
    /\ opens' = opens + 1
    /\ pc' = "loop"
    /\ UNCHANGED <<inputVars, mapperVars, i, calls, yielded, games,
                   damaged_headers, exceptions, observations, raised, result,
                   outfile>>

(* open(filepath) raises: nothing was acquired and the error propagates *)
OpenFails ==
    /\ pc = "start"
    /\ ~pathOk
    /\ raised' = "OSError"
    /\ pc' = "failed"
    /\ UNCHANGED <<inputVars, mapperVars, handle, opens, i, calls, yielded,
                   games, damaged_headers, exceptions, observations, result,
                   outfile>>

(* InRange with the bound off by one *)
InRangeInclusive(k, n) == k <= n

(* range(max_games) still has an i to give *)
InRange(k, n) == k < n

(* `if i % report_each == 1: print(...)` *)
Report(k) ==
    IF k % report_each = 1 THEN Append(observations, k) ELSE observations

(* Leaving the with block normally and `return games, damaged_headers, exceptions` *)
Return ==
    /\ handle' = "closed"
    /\ result' = [returned |-> TRUE, games |-> games,
                  damaged_headers |-> damaged_headers,
                  exceptions |-> exceptions]
    /\ pc' = "returned"

(* range(max_games) is exhausted: the loop ends without a further pull *)
LoopExhausted ==
    /\ pc = "loop"
    /\ ~InRange(i, max_games)
    /\ Return
    /\ UNCHANGED <<inputVars, mapperVars, opens, i, calls, yielded, games,
                   damaged_headers, exceptions, observations, raised, outfile>>

(* One iteration in which read_game returns None: break *)
IterEndOfStream ==
    /\ pc = "loop"
    /\ InRange(i, max_games)
    /\ yielded = Len(source)
    /\ observations' = Report(i)
    /\ calls' = calls + 1
    /\ Return
    /\ UNCHANGED <<inputVars, mapperVars, opens, i, yielded, games,
                   damaged_headers, exceptions, raised, outfile>>

(* IterGood with the record put in front of games *)
IterGoodPrepends ==
    /\ pc = "loop"
    /\ InRange(i, max_games)
    /\ yielded < Len(source)
    /\ parse_game(source[yielded + 1]).ok
    /\ observations' = Report(i)
    /\ calls' = calls + 1
    /\ yielded' = yielded + 1
    /\ games' = <<parse_game(source[yielded + 1]).rec>> \o games
    /\ i' = i + 1
    /\ UNCHANGED <<inputVars, mapperVars, pc, handle, opens, damaged_headers,
                   exceptions, raised, result, outfile>>

(* One iteration in which read_game returns a game that parse_game maps *)
IterGood ==
    /\ pc = "loop"
    /\ InRange(i, max_games)
    /\ yielded < Len(source)
    /\ parse_game(source[yielded + 1]).ok
    /\ observations' = Report(i)
    /\ calls' = calls + 1
    /\ yielded' = yielded + 1
    /\ games' = Append(games, parse_game(source[yielded + 1]).rec)
    /\ i' = i + 1
    /\ UNCHANGED <<inputVars, mapperVars, pc, handle, opens, damaged_headers,
                   exceptions, raised, result, outfile>>

(* IterDamaged without exceptions.append(e) *)
IterDamagedDropsCause ==
    /\ pc = "loop"
    /\ InRange(i, max_games)
    /\ yielded < Len(source)
    /\ ~parse_game(source[yielded + 1]).ok
    /\ observations' = Report(i)
    /\ calls' = calls + 1
    /\ yielded' = yielded + 1
    /\ damaged_headers' = Append(damaged_headers, source[yielded + 1])
    /\ i' = i + 1
    /\ UNCHANGED <<inputVars, mapperVars, pc, handle, opens, games, exceptions,
                   raised, result, outfile>>

(* IterDamaged without the try: the ValidationError propagates *)
IterDamagedUncaught ==
    /\ pc = "loop"
    /\ InRange(i, max_games)
    /\ yielded < Len(source)
    /\ ~parse_game(source[yielded + 1]).ok
    /\ observations' = Report(i)
    /\ calls' = calls + 1
    /\ yielded' = yielded + 1
    /\ raised' = "ValidationError"
    /\ handle' = "closed"
    /\ pc' = "failed"
    /\ UNCHANGED <<inputVars, mapperVars, opens, i, games, damaged_headers,
                   exceptions, result, outfile>>

(* One iteration in which parse_game raises: the except branch, both of    *)
(* its appends.                                                            *)
IterDamaged ==
    /\ pc = "loop"
    /\ InRange(i, max_games)
    /\ yielded < Len(source)
    /\ ~parse_game(source[yielded + 1]).ok
    /\ observations' = Report(i)
    /\ calls' = calls + 1
    /\ yielded' = yielded + 1
    /\ damaged_headers' = Append(damaged_headers, source[yielded + 1])
    /\ exceptions' = Append(exceptions, parse_game(source[yielded + 1]).cause)
    /\ i' = i + 1
    /\ UNCHANGED <<inputVars, mapperVars, pc, handle, opens, games, raised,
                   result, outfile>>

(* IterSourceError without the with block closing the handle *)
IterSourceErrorLeaks ==
    /\ pc = "loop"
    /\ InRange(i, max_games)
    /\ observations' = Report(i)
    /\ calls' = calls + 1
    /\ raised' = "SourceError"
    /\ pc' = "failed"
    /\ UNCHANGED <<inputVars, mapperVars, handle, opens, i, yielded, games,
                   damaged_headers, exceptions, result, outfile>>

(* IterSourceError with read_game inside the try *)
IterSourceErrorSwallowed ==
    /\ pc = "loop"
    /\ InRange(i, max_games)
    /\ observations' = Report(i)
    /\ calls' = calls + 1
    /\ raised' = "SourceError"
    /\ damaged_headers' = Append(damaged_headers, <<>>)
    /\ exceptions' = Append(exceptions, {"SourceError"})
    /\ i' = i + 1
    /\ UNCHANGED <<inputVars, mapperVars, pc, handle, opens, yielded, games,
                   result, outfile>>

(* One iteration in which read_game itself raises (the stream cannot be     *)
(* read): the error is outside the try, leaves the with block, which closes *)
(* the handle, and propagates out of parse_pgn.                             *)
IterSourceError ==
    /\ pc = "loop"
    /\ InRange(i, max_games)
    /\ observations' = Report(i)
    /\ calls' = calls + 1
    /\ raised' = "SourceError"
    /\ handle' = "closed"
    /\ pc' = "failed"
    /\ UNCHANGED <<inputVars, mapperVars, opens, i, yielded, games,
                   damaged_headers, exceptions, result, outfile>>

(* pd.DataFrame(map(lambda x: x.dict(), games)): the columns are the keys of *)
(* the dicts given, in their order; no dict, no column.                      *)
DataFrame(records) ==
    [columns |-> IF records = <<>> THEN <<>> ELSE FieldNames,
     rows |-> records]

(* df.to_csv(path, index=False): the header row naming the columns, then   *)
(* one row per record holding the record's value in each column (the text  *)
(* pandas renders a value as is not modelled).                             *)
to_csv(df) ==
    [exists |-> TRUE,
     header |-> df.columns,
     rows |-> [r \in 1..Len(df.rows) |->
                  [c \in 1..Len(df.columns) |-> df.rows[r][df.columns[c]]]]]

(* WriteCsv run also when parse_pgn raised *)
WriteCsvAlways ==
    /\ mode = "cli"
    /\ pc \in {"returned", "failed"}
    /\ outfile = NoFile
    /\ outfile' = to_csv(DataFrame(games))
    /\ pc' = IF pc = "returned" THEN "saved" ELSE pc
    /\ UNCHANGED <<inputVars, mapperVars, handle, opens, i, calls, yielded,
                   games, damaged_headers, exceptions, observations, raised,
                   result>>

(* _main after parse_pgn returned: the summary is printed and the CSV saved *)
WriteCsv ==
    /\ mode = "cli"
    /\ pc = "returned"
    /\ outfile' = to_csv(DataFrame(result.games))
    /\ pc' = "saved"
    /\ UNCHANGED <<inputVars, mapperVars, handle, opens, i, calls, yielded,
                   games, damaged_headers, exceptions, observations, raised,
                   result>>

Next ==
    \/ Open
    \/ OpenFails
    \/ LoopExhausted
    \/ IterEndOfStream
    \/ IterGood
    \/ IterDamaged
    \/ IterSourceError
    \/ WriteCsv

Spec == Init /\ [][Next]_vars

-----------------------------------------------------------------------------
(* The record mapper on its own: parse_game applied to one header mapping *)

Choices == {PyNone} \cup {PyStr(s) : s \in Texts(MaxLen)}

(* The mapping with one key removed (choice None) or set to a text *)
Put(headers, key, choice) ==
    IF choice = PyNone THEN Without(headers, {key})
    ELSE With(headers, key, choice.s)

(* The header mappings tried: the full one with any two keys overridden *)
InitMapper ==
    /\ \E k1 \in HeaderKeys, k2 \in HeaderKeys, c1 \in Choices, c2 \in Choices :
          raw = Put(Put(FullHeaders, k1, c1), k2, c2)
    /\ mapped = NotMapped
    /\ mode = "lib"
    /\ pathOk = FALSE
    /\ source = <<>>
    /\ max_games = 0
    /\ report_each = DefaultReportEach
    /\ pc = "idle"
    /\ handle = "unopened"
    /\ opens = 0
    /\ i = 0
    /\ calls = 0
    /\ yielded = 0
    /\ games = <<>>
    /\ damaged_headers = <<>>
    /\ exceptions = <<>>
    /\ observations = <<>>
    /\ raised = "none"
    /\ result = NotReturned
    /\ outfile = NoFile

CallParseGame ==
    /\ ~mapped.called
    /\ mapped' = [called |-> TRUE, out |-> parse_game(raw)]
    /\ UNCHANGED <<inputVars, raw, pc, handle, opens, i, calls, yielded, games,
                   damaged_headers, exceptions, observations, raised, result,
                   outfile>>

NextMapper == CallParseGame

SpecMapper == InitMapper /\ [][NextMapper]_vars

-----------------------------------------------------------------------------
(* Properties *)

Good(headers) == parse_game(headers).ok
Damaged(headers) == ~parse_game(headers).ok
RecordOf(headers) == parse_game(headers).rec

Range(q) == {q[k] : k \in 1..Len(q)}
MapRecords(q) == [k \in 1..Len(q) |-> RecordOf(q[k])]

Pulled == SubSeq(source, 1, yielded)

ReturnedIs(g, d, e) ==
    /\ result.games = g
    /\ result.damaged_headers = d
    /\ result.exceptions = e

(* C1: at every iteration boundary of parse_pgn and at its return, the good  *)
(* and damaged lists together are as long as the number of games the source *)
(* has yielded so far, and the damaged list is as long as the causes list.  *)
C1_Lengths ==
    /\ Len(games) + Len(damaged_headers) = yielded
    /\ Len(damaged_headers) = Len(exceptions)
    /\ result.returned =>
          /\ Len(result.games) + Len(result.damaged_headers) = yielded
          /\ Len(result.damaged_headers) = Len(result.exceptions)

C1_Witness ==
    /\ result.returned
    /\ Len(result.games) > 0
    /\ Len(result.damaged_headers) > 0

(* C2: read_game is never called more than max_games times; when the source *)
(* holds at least max_games games, a returning parse_pgn has pulled exactly  *)
(* max_games games with exactly max_games calls; with max_games = 0 nothing  *)
(* is pulled and the three returned lists are empty.                         *)
C2_PullCap ==
    /\ calls <= max_games
    /\ yielded <= calls
    /\ (result.returned /\ Len(source) >= max_games) =>
          (calls = max_games /\ yielded = max_games)
    /\ max_games = 0 =>
          /\ calls = 0
          /\ result.returned => ReturnedIs(<<>>, <<>>, <<>>)

C2_Witness ==
    /\ result.returned
    /\ max_games > 0
    /\ Len(source) > max_games

(* C3: the three lists keep input order: games is the records of the pulled  *)
(* games that map, in input order; damaged_headers is the raw headers of the *)
(* pulled games that do not, in input order; exceptions[k] is the cause of   *)
(* the game whose headers are damaged_headers[k]; and this is what returns.  *)
C3_Order ==
    /\ games = MapRecords(SelectSeq(Pulled, Good))
    /\ damaged_headers = SelectSeq(Pulled, Damaged)
    /\ Len(exceptions) = Len(damaged_headers)
    /\ \A k \in 1..Len(exceptions) :
          exceptions[k] = parse_game(damaged_headers[k]).cause
    /\ result.returned => ReturnedIs(games, damaged_headers, exceptions)

(* Three games pulled, the second malformed, the first and third distinct *)
C3_Witness ==
    /\ result.returned
    /\ yielded = 3
    /\ Good(source[1]) /\ Damaged(source[2]) /\ Good(source[3])
    /\ source[1] # source[3]
    /\ result.games = <<RecordOf(source[1]), RecordOf(source[3])>>
    /\ result.damaged_headers = <<source[2]>>

(* Every well-formed game within the cap is in the returned games *)
C4_LaterGames ==
    result.returned =>
        \A k \in 1..Len(source) :
            (k <= max_games /\ Good(source[k])) =>
                RecordOf(source[k]) \in Range(result.games)

(* The step that pulls a game parse_game fails on *)
C4_FailedStep ==
    (pc = "loop" /\ yielded' = yielded + 1 /\ Damaged(source[yielded + 1])) =>
        /\ damaged_headers' = Append(damaged_headers, source[yielded + 1])
        /\ exceptions' =
              Append(exceptions, parse_game(source[yielded + 1]).cause)
        /\ games' = games
        /\ pc' = "loop"
        /\ handle' = "open"
        /\ raised' = "none"
        /\ i' = i + 1

(* C4: a mapping failure is never fatal: the step in which parse_game fails  *)
(* appends the game's raw headers and the cause, appends nothing to games    *)
(* and leaves parse_pgn in its loop with the handle open; and every          *)
(* well-formed game within the cap, also one after a failure, is returned.   *)
C4_NonFatal == []C4_LaterGames /\ [][C4_FailedStep]_vars

C4_Witness ==
    /\ result.returned
    /\ \E k \in 1..(Len(source) - 1) :
          /\ k + 1 <= max_games
          /\ Damaged(source[k])
          /\ Good(source[k + 1])
          /\ RecordOf(source[k + 1]) \in Range(result.games)

RequiredKeys ==
    {"Event", "Result", "Termination", "TimeControl", "UTCDate", "UTCTime",
     "White", "Black", "WhiteElo", "BlackElo"}

Mappable(headers) ==
    /\ RequiredKeys \subseteq DOMAIN headers
    /\ IsNumeric(headers["WhiteElo"])
    /\ IsNumeric(headers["BlackElo"])
    /\ \A k \in {"WhiteRatingDiff", "BlackRatingDiff"} :
          k \notin DOMAIN headers \/ IsNumeric(headers[k])

(* C5: parse_game returns a record exactly when the ten required keys are    *)
(* present, both Elo are numeric and each rating diff is absent or numeric;  *)
(* the record then has all fourteen fields, an absent optional key giving    *)
(* None, a text field the text given and an int field an int; otherwise it   *)
(* fails and there is no record.                                             *)
C5_AllOrNothing ==
    mapped.called =>
        /\ mapped.out.ok <=> Mappable(raw)
        /\ mapped.out.ok =>
              /\ DOMAIN mapped.out.rec = FieldSet
              /\ \A f \in FieldSet :
                    LET k == HeaderKey[f]
                        v == mapped.out.rec[f]
                    IN  IF k \notin DOMAIN raw
                        THEN v = PyNone /\ k \notin RequiredKeys
                        ELSE IF f \in {"white_elo", "black_elo",
                                       "white_elo_diff", "black_elo_diff"}
                        THEN v.t = "int" /\ v.n \in Int
                        ELSE v = PyStr(raw[k])
        /\ ~mapped.out.ok =>
              /\ "rec" \notin DOMAIN mapped.out
              /\ mapped.out.cause # {}

C5_Witness ==
    /\ mapped.called
    /\ mapped.out.ok
    /\ "WhiteTitle" \notin DOMAIN raw
    /\ "BlackRatingDiff" \notin DOMAIN raw
    /\ mapped.out.rec["white_title"] = PyNone
    /\ mapped.out.rec["black_elo_diff"] = PyNone

(* C6: the handle is acquired at most once, is open only while parse_pgn is  *)
(* in its loop, and is not open in any terminal state: after a return (end   *)
(* of stream or cap reached) and after a fatal source error it is closed.    *)
C6_HandleReleased ==
    /\ opens <= 1
    /\ handle = "open" => pc = "loop"
    /\ pc \in {"returned", "saved"} => (handle = "closed" /\ opens = 1)
    /\ pc = "failed" => handle = IF opens = 1 THEN "closed" ELSE "unopened"

C6_Witness ==
    /\ pc = "failed"
    /\ raised = "SourceError"
    /\ opens = 1
    /\ handle = "closed"

C7_Aborted ==
    raised # "none" => (pc = "failed" /\ ~result.returned)

C7_RaisingStep ==
    (raised = "none" /\ raised' # "none") =>
        /\ games' = games
        /\ damaged_headers' = damaged_headers
        /\ exceptions' = exceptions
        /\ yielded' = yielded

C7_NothingAfter ==
    raised # "none" =>
        UNCHANGED <<calls, yielded, games, damaged_headers, exceptions, result>>

(* C7: when opening the file or read_game raises, parse_pgn ends with that   *)
(* error: the raising step appends nothing to the three lists, no game is    *)
(* pulled afterwards and no triple is returned.                              *)
C7_SourceErrorAborts ==
    /\ []C7_Aborted
    /\ [][C7_RaisingStep]_vars
    /\ [][C7_NothingAfter]_vars

C7_Witness ==
    /\ raised = "SourceError"
    /\ pc = "failed"
    /\ Len(damaged_headers) > 0
    /\ yielded < Len(source)
    /\ calls < max_games

(* C8: for every report_each >= 1 a progress line is printed once every      *)
(* report_each games pulled: once n games have been pulled, at least         *)
(* n \div report_each lines have been printed.                               *)
C8_ReportEveryN ==
    Len(observations) >= yielded \div report_each

(* C9: when the source yields no game, parse_pgn returns three empty lists   *)
(* and the file _main writes has the fourteen column names of HeadersData,   *)
(* in declaration order, as its header row and no data row.                  *)
C9_EmptySourceHeaderOnly ==
    (pc = "saved" /\ yielded = 0) =>
        /\ ReturnedIs(<<>>, <<>>, <<>>)
        /\ outfile.exists
        /\ outfile.header = FieldNames
        /\ outfile.rows = <<>>

(* C10: the output file exists only once parse_pgn has returned normally;    *)
(* when opening the input or the source fails, no output file is written.    *)
C10_NoPartialOutput ==
    /\ outfile.exists => (result.returned /\ raised = "none" /\ pc = "saved")
    /\ pc = "failed" => ~outfile.exists
    /\ (pc = "saved") => outfile.exists

C10_Witness ==
    /\ mode = "cli"
    /\ pc = "failed"
    /\ raised = "SourceError"
    /\ yielded > 0
    /\ ~outfile.exists

====
